---- MODULE Spec2Model ----
(***************************************************************************)
(* The per-chat pairing-session orchestrator of src/bot.js: startPairing,  *)
(* the connection.update handler it registers on every socket, and the     *)
(* /code, /qr and /cancel command handlers.                                *)
(*                                                                         *)
(* JavaScript runs one task at a time and switches tasks only at an await. *)
(* Every action below is the code that runs between two awaits of one      *)
(* invocation; the position of every suspended invocation is a pc field.   *)
(* Consecutive awaits with no access to shared state between them (a send  *)
(* followed by a delay, the three sends of a QR code) are one suspension.  *)
(* A message is put in `sent` when sendMessage is called.  The adapter     *)
(* (Baileys socket), Mega and the clock are the environment: the socket    *)
(* emits any event at any time, registers when it wants, and its calls     *)
(* succeed or fail.                                                        *)
(***************************************************************************)
EXTENDS Naturals, Sequences, FiniteSets, Bags, TLC

\* ------------------------------------------------------------- bounds ----
MaxStarts == 2      \* /code and /qr commands received in a run
MaxEvents == 2      \* connection.update events emitted by all sockets in a run
MaxCancels == 2     \* /cancel commands received in a run
MaxClock == 2       \* the clock runs from 0 to MaxClock ticks
NumChats == 1       \* chats that send commands
MaxInvocations == 3 \* commands and events of a run, together
MaxOpenEvents == 3  \* open events of a run of one /code session

\* ---------------------------------------------------- program constants ----
DebounceSeconds == 30       \* the 30 of "timeSinceLastSent > 30"
TickSeconds == DebounceSeconds  \* the clock is read at multiples of the window
LoggedOut == 401            \* DisconnectReason.loggedOut
BadSession == 500           \* DisconnectReason.badSession, and Boom's default status
ConnectionClosed == 428     \* DisconnectReason.connectionClosed

Chats == 1..NumChats
StartIds == 1..MaxStarts    \* invocation i of startPairing: uuid i, socket i
HandlerIds == 1..(IF MaxEvents > MaxOpenEvents THEN MaxEvents ELSE MaxOpenEvents)
CancelIds == 1..MaxCancels
None == 0                   \* no id: null / undefined

\* Texts are sequences of characters.
MegaFilePrefix ==
    <<"h","t","t","p","s",":","/","/","m","e","g","a",".","n","z","/","f","i","l","e","/">>
KingPrefix == <<"K","i","n","g","~">>
InvalidMegaUrl == <<"E","r","r","o","r">>
NoText == <<>>

\* What fileNode.link() returns for an uploaded file: the prefix, the node
\* handle, "#" and the key.
MegaUrls == { MegaFilePrefix \o <<"a","B","#","k">>,
              MegaFilePrefix \o <<"x","#","/","f">> }
QrPayloads == { <<"r","1",",","n">>, <<"r","2",",","n">> }
PairingCodes == { <<"1","2","3","4">> }
\* The text after "/code " ((.+) of the command's pattern).
CodeArgs == { <<"2","5">>, <<"+","2","5"," ">>, <<"a","2","5">>, <<" ">> }
Digits == {"0","1","2","3","4","5","6","7","8","9"}
Whitespace == {" "}

\* ------------------------------------------------------------ strings ----
RECURSIVE StripLeft(_)
StripLeft(s) ==
    IF s # <<>> /\ Head(s) \in Whitespace THEN StripLeft(Tail(s)) ELSE s

RECURSIVE StripRight(_)
StripRight(s) ==
    IF s # <<>> /\ s[Len(s)] \in Whitespace
    THEN StripRight(SubSeq(s, 1, Len(s) - 1)) ELSE s

\* String.prototype.trim
Trim(s) == StripRight(StripLeft(s))

\* num.replace(/[^0-9]/g, '')
CleanNum(num) == SelectSeq(num, LAMBDA ch : ch \in Digits)

\* The positions at which sub occurs in s.
Occurrences(s, sub) ==
    { i \in 1..(Len(s) - Len(sub) + 1) : SubSeq(s, i, i + Len(sub) - 1) = sub }

\* String.prototype.includes
Includes(s, sub) == Occurrences(s, sub) # {}

Least(S) == CHOOSE i \in S : \A j \in S : i <= j

\* s.split(sub)[1], for a non-empty sub that occurs in s: the text between
\* the first occurrence of sub and the next one that does not overlap it.
SplitSecond(s, sub) ==
    LET first == Least(Occurrences(s, sub))
        from == first + Len(sub)
        later == { i \in Occurrences(s, sub) : i >= from }
        to == IF later = {} THEN Len(s) ELSE Least(later) - 1
    IN SubSeq(s, from, to)

\* The session id built from the url of the upload.
SessionId(megaUrl) ==
    IF Includes(megaUrl, MegaFilePrefix)
    THEN KingPrefix \o SplitSecond(megaUrl, MegaFilePrefix)
    ELSE InvalidMegaUrl

\* ------------------------------------------------------------- state ----
VARIABLES
    activePairings, \* the Map: chat -> the pairing object stored for it, or None
    pairing,        \* the pairing objects, by the startPairing that made them
    files,          \* ./temp_sessions/<uuid>: "absent", "dir" or "creds"
    socks,          \* the sockets made by makeWASocket, by invocation
    sent,           \* bag of the messages given to telegramBot
    calls,          \* bag of the calls made on sockets and on Mega
    starts,         \* the invocations of the /code and /qr commands
    handlers,       \* the invocations of the connection.update handler
    cancels,        \* the invocations of the /cancel command
    now,            \* the clock, in ticks
    limits          \* how many commands and events the run is made of

vars == <<activePairings, pairing, files, socks, sent, calls,
          starts, handlers, cancels, now, limits>>

\* lastPairingInfoSent = null
NoInfo == [type |-> "none", value |-> NoText, timestamp |-> 0]
Info(type, value, timestamp) ==
    [type |-> type, value |-> value, timestamp |-> timestamp]

NoPairing == [sock |-> None, sessionPath |-> None, isCancelling |-> FALSE,
              method |-> "none", lastPairingInfoSent |-> NoInfo]
IdleStart == [pc |-> "idle", chat |-> None, num |-> NoText, method |-> "none",
              sessionPath |-> None, code |-> NoText]
IdleHandler == [pc |-> "idle", sock |-> None, update |-> "none",
                currentPairing |-> None, branch |-> "none", qr |-> NoText,
                error |-> None, megaUrl |-> NoText]
IdleCancel == [pc |-> "idle", chat |-> None, activePairing |-> None,
               op |-> "none", failed |-> FALSE]

Msg(chat, type, value) == [chat |-> chat, type |-> type, value |-> value]
Call(sock, op, arg) == [sock |-> sock, op |-> op, arg |-> arg]
Put(bag, x) == bag (+) SetToBag({x})
Count(bag, x) == CopiesIn(x, bag)

\* How many messages of a type a chat has been sent.
SentOfType(chat, type) ==
    LET ms == { m \in BagToSet(sent) : m.chat = chat /\ m.type = type }
        RECURSIVE Sum(_)
        Sum(S) == IF S = {} THEN 0
                  ELSE LET m == CHOOSE x \in S : TRUE
                       IN Count(sent, m) + Sum(S \ {m})
    IN Sum(ms)

\* How many calls of an operation a socket has received.
CallsOf(sock, op) ==
    LET cs == { c \in BagToSet(calls) : c.sock = sock /\ c.op = op }
        RECURSIVE Sum(_)
        Sum(S) == IF S = {} THEN 0
                  ELSE LET c == CHOOSE x \in S : TRUE
                       IN Count(calls, c) + Sum(S \ {c})
    IN Sum(cs)

Fresh ==
    /\ activePairings = [c \in Chats |-> None]
    /\ pairing = [o \in StartIds |-> NoPairing]
    /\ files = [p \in StartIds |-> "absent"]
    /\ socks = [s \in StartIds |-> [created |-> FALSE, registered |-> FALSE]]
    /\ sent = EmptyBag
    /\ calls = EmptyBag
    /\ starts = [i \in StartIds |-> IdleStart]
    /\ handlers = [h \in HandlerIds |-> IdleHandler]
    /\ cancels = [k \in CancelIds |-> IdleCancel]
    /\ now = 0

\* A run of at most MaxInvocations commands and events, of any kinds.
Init ==
    /\ Fresh
    /\ limits = [starts |-> MaxStarts, events |-> MaxEvents,
                 cancels |-> MaxCancels, invocations |-> MaxInvocations]

\* A run of one /code command and the open events of its socket.
InitOneSession ==
    /\ Fresh
    /\ limits = [starts |-> 1, events |-> MaxOpenEvents, cancels |-> 0,
                 invocations |-> 1 + MaxOpenEvents]

Used(f) == Cardinality({ i \in DOMAIN f : f[i].pc # "idle" })

\* The run may start another invocation.
MayInvoke == Used(starts) + Used(handlers) + Used(cancels) < limits.invocations

\* The next unused invocation record, while the run may start another one.
IsNext(f, i, limit) ==
    /\ i <= limit
    /\ f[i].pc = "idle"
    /\ \A j \in DOMAIN f : j < i => f[j].pc # "idle"
    /\ MayInvoke

\* ------------------------------------------------------- file system ----
removeFile(f, FilePath) == [f EXCEPT ![FilePath] = "absent"]

\* activePairings.delete(chatId)
Delete(map, chatId) == [map EXCEPT ![chatId] = None]

SecondsSince(timestamp) == (now - timestamp) * TickSeconds

\* --------------------------------------------------------- startPairing ----
\* The already-active check of startPairing (isReconnect is false in both
\* callers).
AlreadyActiveMutant(chatId) == FALSE

AlreadyActive(chatId) == activePairings[chatId] # None

\* startPairing up to its first await: the check, the uuid, the path.
\* `out` is `sent` with what the command handler has sent before the call.
startPairing(i, chatId, num, method, out) ==
    IF AlreadyActive(chatId)
    THEN /\ sent' = Put(out, Msg(chatId, "alreadyActive", NoText))
         /\ starts' = [starts EXCEPT ![i] =
                [IdleStart EXCEPT !.pc = "rejected", !.chat = chatId,
                                  !.method = method]]
         /\ files' = files
    ELSE /\ sent' = out
         /\ starts' = [starts EXCEPT ![i] =
                [IdleStart EXCEPT !.pc = "useMultiFileAuthState", !.chat = chatId,
                                  !.num = num, !.method = method,
                                  !.sessionPath = i]]
         /\ files' = removeFile(files, i)

\* /code <number>
handleCodeCommand(i, chatId, arg) ==
    /\ IsNext(starts, i, limits.starts)
    /\ LET whatsappNumber == Trim(arg) IN
       IF whatsappNumber = NoText
       THEN /\ sent' = Put(sent, Msg(chatId, "codeUsage", NoText))
            /\ starts' = [starts EXCEPT ![i] =
                   [IdleStart EXCEPT !.pc = "usage", !.chat = chatId,
                                     !.method = "code"]]
            /\ files' = files
       ELSE startPairing(i, chatId, whatsappNumber, "code",
                         Put(sent, Msg(chatId, "initiating", NoText)))
    /\ UNCHANGED <<activePairings, pairing, socks, calls, handlers, cancels, now, limits>>

\* /qr
handleQrCommand(i, chatId) ==
    /\ IsNext(starts, i, limits.starts)
    /\ startPairing(i, chatId, NoText, "qr",
                    Put(sent, Msg(chatId, "initiating", NoText)))
    /\ UNCHANGED <<activePairings, pairing, socks, calls, handlers, cancels, now, limits>>

\* useMultiFileAuthState resolves: the folder exists, the creds are fresh.
AuthStateReady(i) ==
    /\ starts[i].pc = "useMultiFileAuthState"
    /\ files' = [files EXCEPT ![starts[i].sessionPath] =
                    IF @ = "absent" THEN "dir" ELSE @]
    /\ starts' = [starts EXCEPT ![i].pc = "fetchLatestBaileysVersion"]
    /\ UNCHANGED <<activePairings, pairing, socks, sent, calls, handlers,
                   cancels, now, limits>>

\* fetchLatestBaileysVersion resolves; makeWASocket returns; the entry is
\* stored, the handlers are registered, and the first message of the method
\* is sent.
OpenConnection(i) ==
    LET me == starts[i] IN
    /\ me.pc = "fetchLatestBaileysVersion"
    /\ socks' = [socks EXCEPT ![i] = [created |-> TRUE, registered |-> FALSE]]
    /\ activePairings' = [activePairings EXCEPT ![me.chat] = i]
    /\ pairing' = [pairing EXCEPT ![i] =
            [sock |-> i, sessionPath |-> me.sessionPath, isCancelling |-> FALSE,
             method |-> me.method, lastPairingInfoSent |-> NoInfo]]
    /\ IF me.method = "code"
       THEN IF Trim(me.num) # NoText
            THEN /\ sent' = Put(sent, Msg(me.chat, "requesting", NoText))
                 /\ starts' = [starts EXCEPT ![i].pc = "requesting"]
            ELSE \* handleCodeCommand never passes a blank number
                 /\ sent' = Put(sent, Msg(me.chat, "numberRequired", NoText))
                 /\ starts' = [starts EXCEPT ![i].pc = "numberRequiredSent"]
       ELSE /\ sent' = Put(sent, Msg(me.chat, "generatingQr", NoText))
            /\ starts' = [starts EXCEPT ![i].pc = "done"]
    /\ UNCHANGED <<files, calls, handlers, cancels, now, limits>>

\* makeWASocket throws: the catch block sends its message.
MakeSocketThrows(i) ==
    /\ starts[i].pc = "fetchLatestBaileysVersion"
    /\ sent' = Put(sent, Msg(starts[i].chat, "setupError", NoText))
    /\ starts' = [starts EXCEPT ![i].pc = "catchSent"]
    /\ UNCHANGED <<activePairings, pairing, files, socks, calls, handlers,
                   cancels, now, limits>>

\* After the "requesting" message and delay(1500): the number is cleaned
\* and the pairing code is requested.  (A local that is not read again is
\* reset, here and below.)
RequestPairingCode(i) ==
    /\ starts[i].pc = "requesting"
    /\ calls' = Put(calls, Call(i, "requestPairingCode", CleanNum(starts[i].num)))
    /\ starts' = [starts EXCEPT ![i].pc = "requestPairingCode", ![i].num = NoText]
    /\ UNCHANGED <<activePairings, pairing, files, socks, sent, handlers,
                   cancels, now, limits>>

\* requestPairingCode returns a code: it is sent.
PairingCodeReturned(i, code) ==
    /\ starts[i].pc = "requestPairingCode"
    /\ sent' = Put(sent, Msg(starts[i].chat, "code", code))
    /\ starts' = [starts EXCEPT ![i].pc = "codeSent", ![i].code = code]
    /\ UNCHANGED <<activePairings, pairing, files, socks, calls, handlers,
                   cancels, now, limits>>

\* A start that sends the code and forgets to record it.
PairingCodeRecordedMutant(i) ==
    /\ starts[i].pc = "codeSent"
    /\ starts' = [starts EXCEPT ![i].pc = "done", ![i].code = NoText]
    /\ UNCHANGED <<activePairings, pairing, files, socks, sent, calls,
                   handlers, cancels, now, limits>>

\* The code message is delivered: it is recorded on the object this
\* invocation stored (currentPairingInMainScope).
PairingCodeRecorded(i) ==
    /\ starts[i].pc = "codeSent"
    /\ pairing' = [pairing EXCEPT ![i].lastPairingInfoSent =
                      Info("code", starts[i].code, now)]
    /\ starts' = [starts EXCEPT ![i].pc = "done", ![i].code = NoText]
    /\ UNCHANGED <<activePairings, files, socks, sent, calls, handlers,
                   cancels, now, limits>>

\* requestPairingCode returns nothing: the failure is sent.
PairingCodeEmpty(i) ==
    /\ starts[i].pc = "requestPairingCode"
    /\ sent' = Put(sent, Msg(starts[i].chat, "codeFailed", NoText))
    /\ starts' = [starts EXCEPT ![i].pc = "codeFailedSent"]
    /\ UNCHANGED <<activePairings, pairing, files, socks, calls, handlers,
                   cancels, now, limits>>

\* The failure message is delivered: logout is called.
CodeFailedLogout(i) ==
    /\ starts[i].pc = "codeFailedSent"
    /\ calls' = Put(calls, Call(i, "logout", NoText))
    /\ starts' = [starts EXCEPT ![i].pc = "codeFailedLogout"]
    /\ UNCHANGED <<activePairings, pairing, files, socks, sent, handlers,
                   cancels, now, limits>>

\* A failed request that leaves the folder and the entry behind.
CodeFailedCleanupMutant(i) ==
    /\ starts[i].pc = "codeFailedLogout"
    /\ starts' = [starts EXCEPT ![i].pc = "codeFailed"]
    /\ UNCHANGED <<activePairings, pairing, files, socks, sent, calls,
                   handlers, cancels, now, limits>>

\* logout resolves: the folder and the entry of the chat are removed.
CodeFailedCleanup(i) ==
    /\ starts[i].pc = "codeFailedLogout"
    /\ files' = removeFile(files, starts[i].sessionPath)
    /\ activePairings' = Delete(activePairings, starts[i].chat)
    /\ starts' = [starts EXCEPT ![i].pc = "codeFailed"]
    /\ UNCHANGED <<pairing, socks, sent, calls, handlers, cancels, now, limits>>

\* requestPairingCode or the logout after a failed request rejects: the
\* catch block sends its message.
StartThrows(i) ==
    /\ starts[i].pc \in {"requestPairingCode", "codeFailedLogout"}
    /\ sent' = Put(sent, Msg(starts[i].chat, "setupError", NoText))
    /\ starts' = [starts EXCEPT ![i].pc = "catchSent"]
    /\ UNCHANGED <<activePairings, pairing, files, socks, calls, handlers,
                   cancels, now, limits>>

\* The catch block after its message: the folder and the entry are removed.
CatchCleanup(i) ==
    /\ starts[i].pc = "catchSent"
    /\ files' = removeFile(files, starts[i].sessionPath)
    /\ activePairings' = Delete(activePairings, starts[i].chat)
    /\ starts' = [starts EXCEPT ![i].pc = "failed"]
    /\ UNCHANGED <<pairing, socks, sent, calls, handlers, cancels, now, limits>>

StartStep(i) ==
    \/ AuthStateReady(i)
    \/ OpenConnection(i)
    \/ MakeSocketThrows(i)
    \/ RequestPairingCode(i)
    \/ \E code \in PairingCodes : PairingCodeReturned(i, code)
    \/ PairingCodeRecorded(i)
    \/ PairingCodeEmpty(i)
    \/ CodeFailedLogout(i)
    \/ CodeFailedCleanup(i)
    \/ StartThrows(i)
    \/ CatchCleanup(i)

\* ------------------------------------------- connection.update handler ----
\* The handler registered by invocation s closes over chatId, sock and
\* sessionPath of that invocation.
ChatOf(s) == starts[s].chat
PathOf(s) == starts[s].sessionPath

\* lastDisconnect.error: undefined, or a Boom with a status code.
NoError == None
DisconnectErrors == {NoError, LoggedOut, BadSession, ConnectionClosed}

\* new Boom(lastDisconnect?.error).output.statusCode: a Boom made from
\* nothing has status 500.
StatusCode(error) == IF error = NoError THEN BadSession ELSE error

isErrorEmpty(error) == error = NoError

isPermanentDisconnect(error) ==
    \/ StatusCode(error) = LoggedOut
    \/ StatusCode(error) = BadSession /\ ~isErrorEmpty(error)
    \/ StatusCode(error) = 401

\* What the guard of the handler lets through.
Ignored(chatId) ==
    IF activePairings[chatId] = None THEN TRUE
    ELSE pairing[activePairings[chatId]].isCancelling

\* An event is emitted by socket s; handler invocation h starts.
Emits(h, s) == IsNext(handlers, h, limits.events) /\ socks[s].created

\* The updates a socket emits: connection is "connecting", "open" or
\* "close", or the update carries a qr.
Updates == {"connecting", "open", "close", "qr"}

Begin(h, s, update, pc, branch) ==
    [IdleHandler EXCEPT !.pc = pc, !.sock = s, !.update = update,
                        !.branch = branch,
                        !.currentPairing = activePairings[ChatOf(s)]]

\* Any event while the chat has no entry or a cancelling one.  readyState is
\* the state of the adapter's websocket at that moment: when it is neither
\* CLOSED nor CLOSING the websocket is closed.
EventIgnored(h, s, update, closes) ==
    /\ Emits(h, s)
    /\ Ignored(ChatOf(s))
    /\ handlers' = [handlers EXCEPT ![h] =
            [IdleHandler EXCEPT !.pc = "ignored", !.sock = s,
                                !.update = update, !.branch = "ignored"]]
    /\ calls' = IF closes THEN Put(calls, Call(s, "ws.close", NoText)) ELSE calls
    /\ UNCHANGED <<activePairings, pairing, files, socks, sent, starts,
                   cancels, now, limits>>

\* connection = "connecting"
EventConnecting(h, s) ==
    /\ Emits(h, s)
    /\ ~Ignored(ChatOf(s))
    /\ sent' = Put(sent, Msg(ChatOf(s), "connecting", NoText))
    /\ handlers' = [handlers EXCEPT ![h] = Begin(h, s, "connecting", "done", "connecting")]
    /\ UNCHANGED <<activePairings, pairing, files, socks, calls, starts,
                   cancels, now, limits>>

\* connection = "open": the "Connected" message is sent.
EventOpen(h, s) ==
    /\ Emits(h, s)
    /\ ~Ignored(ChatOf(s))
    /\ sent' = Put(sent, Msg(ChatOf(s), "connected", NoText))
    /\ handlers' = [handlers EXCEPT ![h] = Begin(h, s, "open", "connected", "open")]
    /\ UNCHANGED <<activePairings, pairing, files, socks, calls, starts,
                   cancels, now, limits>>

\* The check after the open branches: registered, and a session id was the
\* last thing sent.
SessionIdDelivered(h) ==
    /\ socks[handlers[h].sock].registered
    /\ pairing'[handlers[h].currentPairing].lastPairingInfoSent.type = "session_id"

\* The end of the open branch: logout when the session id was delivered,
\* else return.
OpenEnd(h, branch) ==
    IF SessionIdDelivered(h)
    THEN /\ calls' = Put(calls, Call(handlers[h].sock, "logout", NoText))
         /\ handlers' = [handlers EXCEPT ![h].pc = "deliveredLogout",
                                         ![h].branch = branch]
    ELSE /\ calls' = calls
         /\ handlers' = [handlers EXCEPT ![h].pc = "done"]

\* The condition under which the upload starts.
UploadDue(registered, lastPairingInfoSent) ==
    registered /\ lastPairingInfoSent = NoInfo

\* After the "Connected" message: the three cases of the open branch.
OpenConnected(h) ==
    LET me == handlers[h]
        chatId == ChatOf(me.sock)
        registered == socks[me.sock].registered
        last == pairing[me.currentPairing].lastPairingInfoSent
    IN
    /\ me.pc = "connected"
    /\ pairing' = pairing
    /\ IF UploadDue(registered, last)
       THEN /\ handlers' = [handlers EXCEPT ![h].pc = "settle",
                                            ![h].branch = "upload"]
            /\ UNCHANGED <<sent, calls>>
       ELSE IF ~registered /\ last # NoInfo
       THEN IF SecondsSince(last.timestamp) > DebounceSeconds
            THEN /\ sent' = Put(sent, Msg(chatId, "expired", NoText))
                 /\ handlers' = [handlers EXCEPT ![h].pc = "expiredSent"]
                 /\ calls' = calls
            ELSE /\ sent' = Put(sent, Msg(chatId, "continue", NoText))
                 /\ handlers' = [handlers EXCEPT ![h].pc = "continueSent"]
                 /\ calls' = calls
       ELSE /\ sent' = sent
            /\ OpenEnd(h, "delivered")
    /\ UNCHANGED <<activePairings, files, socks, starts, cancels, now, limits>>

\* After the "expired" message: the record is cleared.
ExpiredCleared(h) ==
    /\ handlers[h].pc = "expiredSent"
    /\ pairing' = [pairing EXCEPT
            ![handlers[h].currentPairing].lastPairingInfoSent = NoInfo]
    /\ OpenEnd(h, "delivered")
    /\ UNCHANGED <<activePairings, files, socks, sent, starts, cancels, now, limits>>

\* After the "continue" message.
ContinueSent(h) ==
    /\ handlers[h].pc = "continueSent"
    /\ pairing' = pairing
    /\ OpenEnd(h, "delivered")
    /\ UNCHANGED <<activePairings, files, socks, sent, starts, cancels, now, limits>>

\* After delay(5000): creds.json is looked for; uploadCredsToMega is called
\* when it is there.
Settled(h) ==
    LET me == handlers[h] IN
    /\ me.pc = "settle"
    /\ IF files[PathOf(me.sock)] # "creds"
       THEN /\ sent' = Put(sent, Msg(ChatOf(me.sock), "credsMissing", NoText))
            /\ handlers' = [handlers EXCEPT ![h].pc = "missingSent",
                                            ![h].branch = "credsMissing"]
            /\ calls' = calls
       ELSE /\ calls' = Put(calls, Call(me.sock, "uploadCredsToMega", NoText))
            /\ handlers' = [handlers EXCEPT ![h].pc = "storageReady"]
            /\ sent' = sent
    /\ UNCHANGED <<activePairings, pairing, files, socks, starts, cancels, now, limits>>

\* After the creds-missing message: logout is called.
MissingLogout(h) ==
    /\ handlers[h].pc = "missingSent"
    /\ calls' = Put(calls, Call(handlers[h].sock, "logout", NoText))
    /\ handlers' = [handlers EXCEPT ![h].pc = "missingLogout"]
    /\ UNCHANGED <<activePairings, pairing, files, socks, sent, starts,
                   cancels, now, limits>>

\* A cleanup that forgets activePairings.delete(chatId).
CleanupAndReturnMutant(h) ==
    /\ handlers[h].pc \in {"missingLogout", "deliveredLogout", "closedSent"}
    /\ files' = removeFile(files, PathOf(handlers[h].sock))
    /\ handlers' = [handlers EXCEPT ![h].pc = "done"]
    /\ UNCHANGED <<activePairings, pairing, socks, sent, calls, starts,
                   cancels, now, limits>>

\* removeFile(sessionPath); activePairings.delete(chatId); return: the end
\* of the creds-missing, session-id-delivered and close branches.
CleanupAndReturn(h) ==
    /\ handlers[h].pc \in {"missingLogout", "deliveredLogout", "closedSent"}
    /\ files' = removeFile(files, PathOf(handlers[h].sock))
    /\ activePairings' = Delete(activePairings, ChatOf(handlers[h].sock))
    /\ handlers' = [handlers EXCEPT ![h].pc = "done"]
    /\ UNCHANGED <<pairing, socks, sent, calls, starts, cancels, now, limits>>

\* An awaited sock.logout() of the handler rejects: nothing catches it and
\* the invocation ends there.
LogoutThrows(h) ==
    /\ handlers[h].pc \in {"missingLogout", "deliveredLogout", "finallyLogout"}
    /\ handlers' = [handlers EXCEPT ![h].pc = "threw"]
    /\ UNCHANGED <<activePairings, pairing, files, socks, sent, calls, starts,
                   cancels, now, limits>>

\* uploadCredsToMega after Storage.ready: the file is looked for again and
\* the upload starts; a missing file is thrown to the caller's catch.
StorageReady(h) ==
    LET me == handlers[h] IN
    /\ me.pc = "storageReady"
    /\ IF files[PathOf(me.sock)] # "creds"
       THEN /\ sent' = Put(sent, Msg(ChatOf(me.sock), "uploadFailed", NoText))
            /\ handlers' = [handlers EXCEPT ![h].pc = "finallyDelay"]
       ELSE /\ sent' = sent
            /\ handlers' = [handlers EXCEPT ![h].pc = "uploading"]
    /\ UNCHANGED <<activePairings, pairing, files, socks, calls, starts,
                   cancels, now, limits>>

\* Mega fails (no account set, login, upload or link): the catch sends the
\* failure, then the finally block waits.
UploadFails(h) ==
    /\ handlers[h].pc \in {"storageReady", "uploading"}
    /\ sent' = Put(sent, Msg(ChatOf(handlers[h].sock), "uploadFailed", NoText))
    /\ handlers' = [handlers EXCEPT ![h].pc = "finallyDelay"]
    /\ UNCHANGED <<activePairings, pairing, files, socks, calls, starts,
                   cancels, now, limits>>

\* The upload returns a url: the session id is built and sent.
Uploaded(h, megaUrl) ==
    /\ handlers[h].pc = "uploading"
    /\ sent' = Put(sent, Msg(ChatOf(handlers[h].sock), "session_id",
                             SessionId(megaUrl)))
    /\ handlers' = [handlers EXCEPT ![h].pc = "sessionIdSent",
                                    ![h].megaUrl = megaUrl]
    /\ UNCHANGED <<activePairings, pairing, files, socks, calls, starts,
                   cancels, now, limits>>

\* The session id message is delivered: it is recorded, and the finally
\* block waits.
SessionIdRecorded(h) ==
    LET me == handlers[h] IN
    /\ me.pc = "sessionIdSent"
    /\ pairing' = [pairing EXCEPT ![me.currentPairing].lastPairingInfoSent =
                      Info("session_id", SessionId(me.megaUrl), now)]
    /\ handlers' = [handlers EXCEPT ![h].pc = "finallyDelay"]
    /\ UNCHANGED <<activePairings, files, socks, sent, calls, starts,
                   cancels, now, limits>>

\* finally, after delay(100): logout is called.
FinallyLogout(h) ==
    /\ handlers[h].pc = "finallyDelay"
    /\ calls' = Put(calls, Call(handlers[h].sock, "logout", NoText))
    /\ handlers' = [handlers EXCEPT ![h].pc = "finallyLogout"]
    /\ UNCHANGED <<activePairings, pairing, files, socks, sent, starts,
                   cancels, now, limits>>

\* finally, after logout: the folder and the entry are removed; then the
\* check that ends the open branch.
FinallyCleanup(h) ==
    /\ handlers[h].pc = "finallyLogout"
    /\ files' = removeFile(files, PathOf(handlers[h].sock))
    /\ activePairings' = Delete(activePairings, ChatOf(handlers[h].sock))
    /\ pairing' = pairing
    /\ OpenEnd(h, "upload")
    /\ UNCHANGED <<socks, sent, starts, cancels, now, limits>>

\* A close branch that cleans up after every close, transient ones too.
EventCloseMutant(h, s, error) ==
    /\ Emits(h, s)
    /\ ~Ignored(ChatOf(s))
    /\ IF isPermanentDisconnect(error)
       THEN /\ sent' = Put(sent, Msg(ChatOf(s), "permanent", NoText))
            /\ handlers' = [handlers EXCEPT ![h] =
                                [Begin(h, s, "close", "closedSent", "permanent")
                                    EXCEPT !.error = error]]
            /\ UNCHANGED <<activePairings, files>>
       ELSE /\ sent' = Put(sent, Msg(ChatOf(s), "transient", NoText))
            /\ handlers' = [handlers EXCEPT ![h] =
                                [Begin(h, s, "close", "done", "transient")
                                    EXCEPT !.error = error]]
            /\ files' = removeFile(files, PathOf(s))
            /\ activePairings' = Delete(activePairings, ChatOf(s))
    /\ UNCHANGED <<pairing, socks, calls, starts, cancels, now, limits>>

\* connection = "close"
EventClose(h, s, error) ==
    /\ Emits(h, s)
    /\ ~Ignored(ChatOf(s))
    /\ IF pairing[activePairings[ChatOf(s)]].isCancelling
       THEN /\ sent' = Put(sent, Msg(ChatOf(s), "cancelled", NoText))
            /\ handlers' = [handlers EXCEPT ![h] =
                                [Begin(h, s, "close", "closedSent", "cancelled")
                                    EXCEPT !.error = error]]
       ELSE IF isPermanentDisconnect(error)
       THEN /\ sent' = Put(sent, Msg(ChatOf(s), "permanent", NoText))
            /\ handlers' = [handlers EXCEPT ![h] =
                                [Begin(h, s, "close", "closedSent", "permanent")
                                    EXCEPT !.error = error]]
       ELSE /\ sent' = Put(sent, Msg(ChatOf(s), "transient", NoText))
            /\ handlers' = [handlers EXCEPT ![h] =
                                [Begin(h, s, "close", "done", "transient")
                                    EXCEPT !.error = error]]
    /\ UNCHANGED <<activePairings, pairing, files, socks, calls, starts,
                   cancels, now, limits>>

\* The condition under which a QR code is sent.
QrDue(last, qr) ==
    \/ last = NoInfo
    \/ last.type = "qr" /\ last.value # qr
    \/ SecondsSince(last.timestamp) > DebounceSeconds

\* An update that carries a qr and no connection.
EventQr(h, s, qr) ==
    LET chatId == ChatOf(s)
        currentPairing == pairing[activePairings[chatId]]
    IN
    /\ Emits(h, s)
    /\ ~Ignored(chatId)
    /\ IF /\ currentPairing.method = "qr"
          /\ ~socks[s].registered
          /\ QrDue(currentPairing.lastPairingInfoSent, qr)
       THEN /\ sent' = Put(Put(Put(sent, Msg(chatId, "qrIntro", NoText)),
                               Msg(chatId, "qr", qr)),
                           Msg(chatId, "qrNote", NoText))
            /\ handlers' = [handlers EXCEPT ![h] =
                                [Begin(h, s, "qr", "qrSent", "qr") EXCEPT !.qr = qr]]
       ELSE /\ sent' = sent
            /\ handlers' = [handlers EXCEPT ![h] =
                                [Begin(h, s, "qr", "done", "qrSkipped") EXCEPT !.qr = qr]]
    /\ UNCHANGED <<activePairings, pairing, files, socks, calls, starts,
                   cancels, now, limits>>

\* The three QR messages are delivered: the code is recorded.
QrRecorded(h) ==
    LET me == handlers[h] IN
    /\ me.pc = "qrSent"
    /\ pairing' = [pairing EXCEPT ![me.currentPairing].lastPairingInfoSent =
                      Info("qr", me.qr, now)]
    /\ handlers' = [handlers EXCEPT ![h].pc = "done"]
    /\ UNCHANGED <<activePairings, files, socks, sent, calls, starts,
                   cancels, now, limits>>

OpenStep(h) ==
    \/ OpenConnected(h)
    \/ ExpiredCleared(h)
    \/ ContinueSent(h)
    \/ Settled(h)
    \/ MissingLogout(h)
    \/ CleanupAndReturn(h)
    \/ LogoutThrows(h)
    \/ StorageReady(h)
    \/ UploadFails(h)
    \/ \E megaUrl \in MegaUrls : Uploaded(h, megaUrl)
    \/ SessionIdRecorded(h)
    \/ FinallyLogout(h)
    \/ FinallyCleanup(h)

HandlerStep(h) ==
    \/ OpenStep(h)
    \/ QrRecorded(h)

\* ------------------------------------------------------------ /cancel ----
ReadyStates == {"OPEN", "CONNECTING", "CLOSED"}

\* /cancel that reports success when there is nothing to cancel.
handleCancelMutant(k, chatId) ==
    /\ IsNext(cancels, k, limits.cancels)
    /\ IF activePairings[chatId] # None
       THEN /\ sent' = Put(sent, Msg(chatId, "cancelAttempt", NoText))
            /\ cancels' = [cancels EXCEPT ![k] =
                   [IdleCancel EXCEPT !.pc = "attemptSent", !.chat = chatId,
                                      !.activePairing = activePairings[chatId]]]
       ELSE /\ sent' = Put(sent, Msg(chatId, "cancelSuccess", NoText))
            /\ cancels' = [cancels EXCEPT ![k] =
                   [IdleCancel EXCEPT !.pc = "noActive", !.chat = chatId]]
    /\ UNCHANGED <<activePairings, pairing, files, socks, calls, starts,
                   handlers, now, limits>>

\* /cancel up to its first await.
handleCancel(k, chatId) ==
    /\ IsNext(cancels, k, limits.cancels)
    /\ IF activePairings[chatId] # None
       THEN /\ sent' = Put(sent, Msg(chatId, "cancelAttempt", NoText))
            /\ cancels' = [cancels EXCEPT ![k] =
                   [IdleCancel EXCEPT !.pc = "attemptSent", !.chat = chatId,
                                      !.activePairing = activePairings[chatId]]]
       ELSE /\ sent' = Put(sent, Msg(chatId, "noActive", NoText))
            /\ cancels' = [cancels EXCEPT ![k] =
                   [IdleCancel EXCEPT !.pc = "noActive", !.chat = chatId]]
    /\ UNCHANGED <<activePairings, pairing, files, socks, calls, starts,
                   handlers, now, limits>>

\* After the "attempting" message: the flag is set and the socket is logged
\* out or closed, by the state its websocket is in.
CancelTeardown(k, readyState) ==
    LET me == cancels[k]
        sock == pairing[me.activePairing].sock
        op == IF readyState = "OPEN" THEN "logout"
              ELSE IF readyState # "CLOSED" THEN "ws.close" ELSE "none"
    IN
    /\ me.pc = "attemptSent"
    /\ pairing' = [pairing EXCEPT ![me.activePairing].isCancelling = TRUE]
    /\ calls' = IF op = "none" THEN calls ELSE Put(calls, Call(sock, op, NoText))
    /\ cancels' = [cancels EXCEPT ![k].pc = "teardown", ![k].op = op]
    /\ UNCHANGED <<activePairings, files, socks, sent, starts, handlers, now, limits>>

\* A cancel that clears the flag again once it has cleaned up.
CancelFinallyClearsFlag(k, failed) ==
    LET me == cancels[k] IN
    /\ me.pc = "teardown"
    /\ failed => me.op # "none"
    /\ files' = removeFile(files, pairing[me.activePairing].sessionPath)
    /\ activePairings' = Delete(activePairings, me.chat)
    /\ pairing' = [pairing EXCEPT ![me.activePairing].isCancelling = FALSE]
    /\ sent' = Put(sent, Msg(me.chat, "cancelSuccess", NoText))
    /\ cancels' = [cancels EXCEPT ![k].pc = "done", ![k].failed = failed]
    /\ UNCHANGED <<socks, calls, starts, handlers, now, limits>>

\* A cancel whose cleanup is in the try block: skipped when the logout or
\* close throws.
CancelFinallyMutant(k, failed) ==
    LET me == cancels[k] IN
    /\ me.pc = "teardown"
    /\ failed => me.op # "none"
    /\ files' = IF failed THEN files
                ELSE removeFile(files, pairing[me.activePairing].sessionPath)
    /\ activePairings' = IF failed THEN activePairings
                         ELSE Delete(activePairings, me.chat)
    /\ sent' = Put(sent, Msg(me.chat, "cancelSuccess", NoText))
    /\ cancels' = [cancels EXCEPT ![k].pc = "done", ![k].failed = failed]
    /\ UNCHANGED <<pairing, socks, calls, starts, handlers, now, limits>>

\* The finally block: after the logout or close (resolved or caught) and
\* delay(100), the folder and the entry are removed and success is sent.
CancelFinally(k, failed) ==
    LET me == cancels[k] IN
    /\ me.pc = "teardown"
    /\ failed => me.op # "none"
    /\ files' = removeFile(files, pairing[me.activePairing].sessionPath)
    /\ activePairings' = Delete(activePairings, me.chat)
    /\ sent' = Put(sent, Msg(me.chat, "cancelSuccess", NoText))
    /\ cancels' = [cancels EXCEPT ![k].pc = "done", ![k].failed = failed]
    /\ UNCHANGED <<pairing, socks, calls, starts, handlers, now, limits>>

CancelStep(k) ==
    \/ \E readyState \in ReadyStates : CancelTeardown(k, readyState)
    \/ \E failed \in BOOLEAN : CancelFinally(k, failed)

\* -------------------------------------------------------- environment ----
HandlerEnded(h) == handlers[h].pc \in {"idle", "done", "ignored", "threw"}

\* A handler of socket s may still read the state of the adapter: one is
\* running, or the socket may emit another event.  The adapter is modelled
\* up to the last read of its state.
Watched(s) ==
    \/ MayInvoke
    \/ \E h \in HandlerIds : handlers[h].sock = s /\ ~HandlerEnded(h)

\* The adapter marks the credentials of a socket as registered.
Registers(s) ==
    /\ socks[s].created
    /\ ~socks[s].registered
    /\ Watched(s)
    /\ socks' = [socks EXCEPT ![s].registered = TRUE]
    /\ UNCHANGED <<activePairings, pairing, files, sent, calls, starts,
                   handlers, cancels, now, limits>>

\* creds.update: saveCreds writes creds.json into the folder, if it is there.
\* The file is read only once the socket is seen registered, so only the
\* writes after that are told apart.
saveCreds(s) ==
    /\ socks[s].created
    /\ socks[s].registered
    /\ Watched(s)
    /\ files[PathOf(s)] = "dir"
    /\ files' = [files EXCEPT ![PathOf(s)] = "creds"]
    /\ UNCHANGED <<activePairings, pairing, socks, sent, calls, starts,
                   handlers, cancels, now, limits>>

\* The timestamp of object o may still be read: by the next qr or open
\* event of its chat, or by a handler that is about to compare it.
TimestampRead(o) ==
    /\ pairing[o].lastPairingInfoSent.type \in {"qr", "code"}
    /\ \/ MayInvoke /\ \E c \in Chats : activePairings[c] = o
       \/ \E h \in HandlerIds : /\ handlers[h].pc = "connected"
                                 /\ handlers[h].currentPairing = o

\* Time passes.  The clock is read only against a recorded timestamp, so
\* it runs while one may be read.
Tick ==
    /\ now < MaxClock
    /\ \E o \in StartIds : TimestampRead(o)
    /\ now' = now + 1
    /\ UNCHANGED <<activePairings, pairing, files, socks, sent, calls, starts,
                   handlers, cancels, limits>>

\* ------------------------------------------------------ specification ----
Next ==
    \/ \E i \in StartIds, c \in Chats, arg \in CodeArgs : handleCodeCommand(i, c, arg)
    \/ \E i \in StartIds, c \in Chats : handleQrCommand(i, c)
    \/ \E i \in StartIds : StartStep(i)
    \/ \E h \in HandlerIds, s \in StartIds, update \in Updates, closes \in BOOLEAN :
            EventIgnored(h, s, update, closes)
    \/ \E h \in HandlerIds, s \in StartIds : EventConnecting(h, s)
    \/ \E h \in HandlerIds, s \in StartIds : EventOpen(h, s)
    \/ \E h \in HandlerIds, s \in StartIds, error \in DisconnectErrors :
            EventClose(h, s, error)
    \/ \E h \in HandlerIds, s \in StartIds, qr \in QrPayloads : EventQr(h, s, qr)
    \/ \E h \in HandlerIds : HandlerStep(h)
    \/ \E k \in CancelIds, c \in Chats : handleCancel(k, c)
    \/ \E k \in CancelIds : CancelStep(k)
    \/ \E s \in StartIds : Registers(s)
    \/ \E s \in StartIds : saveCreds(s)
    \/ Tick

Spec == Init /\ [][Next]_vars

\* The steps of a run in which the chat sends /code and the socket emits
\* open updates only.
NextOneSession ==
    \/ \E i \in StartIds, c \in Chats, arg \in CodeArgs : handleCodeCommand(i, c, arg)
    \/ \E i \in StartIds : StartStep(i)
    \/ \E h \in HandlerIds, s \in StartIds : EventOpen(h, s)
    \/ \E h \in HandlerIds : OpenStep(h)
    \/ \E s \in StartIds : Registers(s)
    \/ \E s \in StartIds : saveCreds(s)
    \/ Tick

OneSessionSpec == InitOneSession /\ [][NextOneSession]_vars

\* Under FairSpec a /cancel that is suspended at an await is resumed: the
\* event loop runs every continuation whose promise has settled.
FairSpec == Spec /\ \A k \in CancelIds : WF_vars(CancelStep(k))

\* ------------------------------------------------------------- claims ----
ChatOfHandler(h) == ChatOf(handlers[h].sock)
PathOfHandler(h) == PathOf(handlers[h].sock)

\* Invocation i of a command starts in this step and calls startPairing.
StartPairingCalled(i) ==
    starts[i].pc = "idle" /\ starts'[i].pc \notin {"idle", "usage"}

\* C1: a startPairing call (isReconnect false) made while the store holds
\* an entry for the chat sends the already-active message and nothing else,
\* opens no socket, takes no session path, leaves the store, the stored
\* object, the files and the sockets as they are, and does nothing later.
C1_AlreadyActiveRejected ==
    [][\A i \in StartIds :
        /\ (StartPairingCalled(i) /\ activePairings[starts'[i].chat] # None)
            => /\ starts'[i].pc = "rejected"
               /\ starts'[i].sessionPath = None
               /\ sent' = Put(Put(sent, Msg(starts'[i].chat, "initiating", NoText)),
                              Msg(starts'[i].chat, "alreadyActive", NoText))
               /\ UNCHANGED <<activePairings, pairing, files, socks, calls>>
        /\ starts[i].pc = "rejected" => starts'[i] = starts[i]
        /\ starts'[i].pc = "rejected"
            => ~socks'[i].created /\ files'[i] = "absent" /\ pairing'[i] = NoPairing
      ]_vars

C1_Witness ==
    \E i \in StartIds :
        /\ starts[i].pc = "rejected"
        /\ activePairings[starts[i].chat] # None
        /\ SentOfType(starts[i].chat, "alreadyActive") = 1

\* The handler invocations, starts and cancels that have run a terminal
\* branch to its end (by returning or by an uncaught exception).
HandlerTerminal(h) ==
    /\ handlers[h].pc \in {"done", "threw"}
    /\ handlers[h].branch \in {"upload", "credsMissing", "delivered", "permanent"}

\* C2: once a session has ended (upload sub-flow over, /cancel over,
\* permanent close handled, creds.json missing, pairing code request
\* failed, exception in startPairing), its folder is gone and the store
\* does not hold its object.
C2_TerminalCleansUp ==
    /\ \A h \in HandlerIds :
        HandlerTerminal(h)
            => /\ files[PathOfHandler(h)] = "absent"
               /\ activePairings[ChatOfHandler(h)] # handlers[h].currentPairing
    /\ \A k \in CancelIds :
        cancels[k].pc = "done"
            => /\ files[pairing[cancels[k].activePairing].sessionPath] = "absent"
               /\ activePairings[cancels[k].chat] # cancels[k].activePairing
    /\ \A i \in StartIds :
        starts[i].pc \in {"codeFailed", "failed"}
            => files[i] = "absent" /\ activePairings[starts[i].chat] # i

\* C3: when the handler of an open event, after its "Connected" message,
\* finds the socket registered and no session id recorded on a session that
\* is not cancelling, it starts the upload sub-flow (the settle delay), also
\* when a QR or a pairing code is recorded.
C3_OpenStartsUpload ==
    [][\A h \in HandlerIds :
        (/\ handlers[h].pc = "connected"
         /\ handlers'[h] # handlers[h]
         /\ socks[handlers[h].sock].registered
         /\ ~pairing[handlers[h].currentPairing].isCancelling
         /\ pairing[handlers[h].currentPairing].lastPairingInfoSent.type # "session_id")
            => handlers'[h].pc = "settle"
      ]_vars

\* The handler invocations that entered the upload sub-flow for object o.
UploadsOf(o) ==
    { h \in HandlerIds : handlers[h].branch = "upload"
                         /\ handlers[h].currentPairing = o }

\* C4: for every session the upload sub-flow is entered at most once and
\* uploadCredsToMega is called at most once.
C4_UploadAtMostOnce ==
    /\ \A o \in StartIds : Cardinality(UploadsOf(o)) <= 1
    /\ \A s \in StartIds : CallsOf(s, "uploadCredsToMega") <= 1

\* The part of a url after "https://mega.nz/file/".
PathComponent(megaUrl) ==
    SubSeq(megaUrl, Len(MegaFilePrefix) + 1, Len(megaUrl))

ExpectedSessionId(megaUrl) == KingPrefix \o PathComponent(megaUrl)

\* The session ids sent are made from the urls returned: every url returned
\* has its session id in the chat, and no other session id is sent.
SessionIdsMatchUrls ==
    /\ \A h \in HandlerIds :
            handlers[h].megaUrl # NoText
                => Count(sent, Msg(ChatOfHandler(h), "session_id",
                                   ExpectedSessionId(handlers[h].megaUrl))) >= 1
    /\ \A m \in BagToSet(sent) :
            m.type = "session_id"
                => \E u \in MegaUrls : m.value = ExpectedSessionId(u)

\* Handler invocation h sends its session id in this step.
SessionIdSent(h) == handlers[h].megaUrl = NoText /\ handlers'[h].megaUrl # NoText

\* C5: when the upload returns a url, the session id sent to the chat is
\* "King~" followed by the part of the url after "https://mega.nz/file/",
\* for every url, and the store entry of the session is removed only after
\* that message is sent: it is still in the store when the message is sent.
C5_SessionIdBeforeRemoval ==
    /\ []SessionIdsMatchUrls
    /\ [][\A h \in HandlerIds :
            SessionIdSent(h)
                => activePairings[ChatOfHandler(h)] = handlers[h].currentPairing
         ]_vars

\* Handler invocation h starts in this step with a qr event.
QrEventHandled(h) ==
    handlers[h].pc = "idle" /\ handlers'[h].branch \in {"qr", "qrSkipped"}

\* C6: a qr event that carries the payload of the last QR sent, on a qr
\* session whose socket is not registered, sends no QR when less than 30
\* seconds have passed since that QR was recorded and sends one when 30
\* seconds or more have passed.
C6_QrDebounce ==
    [][\A h \in HandlerIds :
        LET o == handlers'[h].currentPairing
            last == pairing[o].lastPairingInfoSent
        IN (/\ QrEventHandled(h)
            /\ pairing[o].method = "qr"
            /\ ~socks[handlers'[h].sock].registered
            /\ last.type = "qr"
            /\ last.value = handlers'[h].qr)
            => /\ SecondsSince(last.timestamp) < DebounceSeconds
                    => handlers'[h].branch = "qrSkipped" /\ sent' = sent
               /\ SecondsSince(last.timestamp) >= DebounceSeconds
                    => /\ handlers'[h].branch = "qr"
                       /\ Count(sent', Msg(ChatOfHandler(h)', "qr", last.value))
                            = Count(sent, Msg(ChatOfHandler(h)', "qr", last.value)) + 1
      ]_vars

\* The sessions that a /cancel has been issued on.
Cancelled(c) ==
    { cancels[k].activePairing :
        k \in { j \in CancelIds : cancels[j].chat = c /\ cancels[j].activePairing # None } }

\* C7: the chat receives at most one cancellation-success message for each
\* session that is cancelled.
C7_CancelNotifiesOnce ==
    \A c \in Chats :
        SentOfType(c, "cancelSuccess") + SentOfType(c, "cancelled")
            <= Cardinality(Cancelled(c))

\* Invocation k of /cancel starts in this step.
CancelCalled(k) == cancels[k].pc = "idle" /\ cancels'[k].pc # "idle"

\* C8: /cancel on a chat with no entry sends the no-active-pairing message
\* and nothing else, calls nothing on any socket, removes no file, leaves
\* the store as it is, and does nothing later.
C8_CancelWithoutSession ==
    [][\A k \in CancelIds :
        /\ (CancelCalled(k) /\ activePairings[cancels'[k].chat] = None)
            => /\ cancels'[k].pc = "noActive"
               /\ sent' = Put(sent, Msg(cancels'[k].chat, "noActive", NoText))
               /\ UNCHANGED <<activePairings, pairing, files, socks, calls>>
        /\ cancels[k].pc = "noActive" => cancels'[k] = cancels[k]
      ]_vars

C8_Witness ==
    \E k \in CancelIds :
        /\ cancels[k].pc = "noActive"
        /\ SentOfType(cancels[k].chat, "noActive") = 1
        /\ SentOfType(cancels[k].chat, "cancelSuccess") = 0

\* C9: every /cancel that found an entry reaches its finally block, and
\* that block removes the folder of the session, removes the entry of the
\* chat and sends the success message, whether the logout or close
\* succeeded or was caught.
C9_CancelCompletes ==
    /\ \A k \in CancelIds :
        (cancels[k].pc \in {"attemptSent", "teardown"}) ~> (cancels[k].pc = "done")
    /\ [][\A k \in CancelIds :
            (cancels[k].pc # "done" /\ cancels'[k].pc = "done")
                => /\ files'[pairing[cancels[k].activePairing].sessionPath] = "absent"
                   /\ activePairings'[cancels[k].chat] = None
                   /\ sent' = Put(sent, Msg(cancels[k].chat, "cancelSuccess", NoText))
         ]_vars

C9_Witness ==
    \E k \in CancelIds :
        /\ cancels[k].pc = "done"
        /\ cancels[k].op = "logout"
        /\ cancels[k].failed
        /\ files[pairing[cancels[k].activePairing].sessionPath] = "absent"
        /\ activePairings[cancels[k].chat] = None
        /\ SentOfType(cancels[k].chat, "cancelSuccess") = 1

\* The disconnect reasons the close branch is to treat as permanent:
\* logged out or unauthorized (401), bad session (500 with an error).
PermanentReasons == {LoggedOut, BadSession}

\* Handler invocation h starts in this step with a close event.
CloseEventHandled(h) ==
    handlers[h].pc = "idle"
    /\ handlers'[h].branch \in {"permanent", "transient", "cancelled"}

\* C10: a close event with a permanent reason on a session that is not
\* cancelling sends the permanent-failure message; when that message is
\* delivered the folder of the session and the entry of the chat are
\* removed; and a startPairing call for a chat with no entry is not
\* rejected and, when its socket is made, stores a new session.
C10_PermanentClose ==
    [][/\ \A h \in HandlerIds :
            /\ (CloseEventHandled(h) /\ handlers'[h].error \in PermanentReasons)
                => /\ handlers'[h].pc = "closedSent"
                   /\ handlers'[h].branch = "permanent"
                   /\ sent' = Put(sent, Msg(ChatOfHandler(h)', "permanent", NoText))
            /\ (handlers[h].branch = "permanent" /\ handlers[h].pc = "closedSent"
                /\ handlers'[h] # handlers[h])
                => /\ handlers'[h].pc = "done"
                   /\ files'[PathOfHandler(h)] = "absent"
                   /\ activePairings'[ChatOfHandler(h)] = None
       /\ \A i \in StartIds :
            /\ (StartPairingCalled(i) /\ activePairings[starts'[i].chat] = None)
                => starts'[i].pc = "useMultiFileAuthState"
            /\ (starts[i].pc = "fetchLatestBaileysVersion" /\ socks'[i].created)
                => /\ activePairings'[starts[i].chat] = i
                   /\ pairing'[i].sock = i
                   /\ pairing'[i].sessionPath = i
                   /\ ~pairing'[i].isCancelling
      ]_vars

C10_Witness ==
    \E h \in HandlerIds, i \in StartIds :
        /\ handlers[h].pc = "done"
        /\ handlers[h].branch = "permanent"
        /\ handlers[h].error = LoggedOut
        /\ SentOfType(ChatOfHandler(h), "permanent") = 1
        /\ files[PathOfHandler(h)] = "absent"
        /\ i > handlers[h].sock
        /\ starts[i].chat = ChatOfHandler(h)
        /\ activePairings[starts[i].chat] = i

\* A text of digits only, and at least one.
IsNumeric(s) == s # NoText /\ \A k \in 1..Len(s) : s[k] \in Digits

\* C11: startPairing with method code and a number that is empty or not
\* numeric opens no connection and stores no session: a socket is made and
\* an entry is stored for a code start only when its number is numeric.
C11_InvalidTargetOpensNothing ==
    [][\A i \in StartIds :
        (/\ starts[i].method = "code"
         /\ \/ ~socks[i].created /\ socks'[i].created
            \/ \E c \in Chats : activePairings[c] # i /\ activePairings'[c] = i)
            => IsNumeric(starts[i].num)
      ]_vars

\* Invocation i of startPairing receives a pairing code in this step.
CodeReturned(i) ==
    starts[i].pc = "requestPairingCode" /\ starts'[i].pc = "codeSent"

\* C12: when requestPairingCode returns a code to a code start, exactly one
\* message carrying that code is sent, and when it is delivered the
\* lastPairingInfoSent of the object the start stored becomes {code, that
\* code}; code messages are sent by no other step, and each start calls
\* requestPairingCode at most once.
C12_CodeSentOnceAndRecorded ==
    /\ [](\A i \in StartIds : CallsOf(i, "requestPairingCode") <= 1)
    /\ [][/\ \A i \in StartIds :
                /\ CodeReturned(i)
                    => /\ starts'[i].code \in PairingCodes
                       /\ sent' = Put(sent, Msg(starts[i].chat, "code", starts'[i].code))
                /\ (starts[i].pc = "codeSent" /\ starts'[i] # starts[i])
                    => /\ starts'[i].pc = "done"
                       /\ pairing'[i].lastPairingInfoSent.type = "code"
                       /\ pairing'[i].lastPairingInfoSent.value = starts[i].code
                       /\ sent' = sent
                /\ starts[i].pc = "done" => starts'[i] = starts[i]
          /\ (\E c \in Chats : SentOfType(c, "code")' # SentOfType(c, "code"))
                => \E i \in StartIds : CodeReturned(i)
       ]_vars

C12_Witness ==
    \E i \in StartIds, code \in PairingCodes :
        /\ starts[i].pc = "done"
        /\ starts[i].method = "code"
        /\ pairing[i].lastPairingInfoSent.type = "code"
        /\ pairing[i].lastPairingInfoSent.value = code
        /\ Count(sent, Msg(starts[i].chat, "code", code)) = 1
        /\ CallsOf(i, "requestPairingCode") = 1

\* An upload attempt of object o is in flight: one of its open handlers is
\* between the start of the settle delay and the return of uploadCredsToMega.
UploadInFlight(o) ==
    \E h \in HandlerIds :
        /\ handlers[h].currentPairing = o
        /\ handlers[h].branch = "upload"
        /\ handlers[h].pc \in {"settle", "storageReady", "uploading"}

\* This step is a cleanup step of object o: logout is called on its socket,
\* its folder is removed, or its entry is deleted from the store.
CleanupStepOf(o) ==
    \/ CallsOf(pairing[o].sock, "logout")' > CallsOf(pairing[o].sock, "logout")
    \/ /\ files[pairing[o].sessionPath] # "absent"
       /\ files'[pairing[o].sessionPath] = "absent"
    \/ \E c \in Chats : activePairings[c] = o /\ activePairings'[c] # o

\* C13: no cleanup step of a session (logout on its socket, removal of its
\* folder, deletion of its entry) is taken while an upload attempt of that
\* session is in flight, whoever takes it: /cancel, a close handler or
\* another open handler.
C13_NoCleanupDuringUpload ==
    [][\A o \in StartIds : UploadInFlight(o) => ~CleanupStepOf(o)]_vars

\* Handler invocation h is between its start and its end.
Running(h) == ~HandlerEnded(h)

\* C14: the connection events of a chat are handled one at a time: the
\* handling of an event begins only when no handling of an earlier event of
\* the same chat is still suspended.
C14_EventsHandledOneAtATime ==
    [][\A h \in HandlerIds :
        (handlers[h].pc = "idle" /\ handlers'[h].pc # "idle")
            => \A g \in HandlerIds \ {h} :
                    Running(g) => ChatOfHandler(g) # ChatOfHandler(h)'
      ]_vars

\* Handler invocation h starts in this step, for an update of the socket of
\* a stored session that is flagged as cancelling.
FlaggedEventHandled(h) ==
    /\ handlers[h].pc = "idle"
    /\ handlers'[h].pc # "idle"
    /\ LET o == activePairings[ChatOfHandler(h)'] IN
       IF o = None THEN FALSE
       ELSE pairing[o].isCancelling /\ pairing[o].sock = handlers'[h].sock

\* C15: once isCancelling is set on a session, an update of its socket
\* other than a close is ignored (no message, no change to the session, its
\* folder or the store), and the close update delivered for the flagged
\* session is handled by the cancelled branch, which removes the folder and
\* the entry, whatever the disconnect reason.
C15_CancellingIgnoresAllButClose ==
    [][\A h \in HandlerIds :
        /\ FlaggedEventHandled(h)
            => /\ handlers'[h].update # "close"
                    => /\ handlers'[h].pc = "ignored"
                       /\ UNCHANGED <<sent, pairing, activePairings, files>>
               /\ handlers'[h].update = "close"
                    => handlers'[h].branch = "cancelled"
        /\ (handlers[h].branch = "cancelled" /\ handlers[h].pc = "closedSent"
            /\ handlers'[h] # handlers[h])
            => /\ files'[PathOfHandler(h)] = "absent"
               /\ activePairings'[ChatOfHandler(h)] = None
      ]_vars

\* The disconnect reasons that are not permanent: no error at all, or a
\* status such as connection closed.
TransientReasons == DisconnectErrors \ PermanentReasons

\* C16: a close update with a transient reason on a session that is stored
\* and not cancelling sends one "retrying" message and changes nothing
\* else: the store, the stored object, the folder, the sockets and the calls
\* made on them stay as they are, no startPairing is made, and the handler
\* does nothing later.
C16_TransientCloseChangesNothing ==
    [][\A h \in HandlerIds :
        /\ (CloseEventHandled(h) /\ handlers'[h].error \in TransientReasons)
            => /\ handlers'[h].branch = "transient"
               /\ handlers'[h].pc = "done"
               /\ sent' = Put(sent, Msg(ChatOfHandler(h)', "transient", NoText))
               /\ UNCHANGED <<activePairings, pairing, files, socks, calls, starts>>
        /\ handlers[h].branch = "transient" => handlers'[h] = handlers[h]
      ]_vars

C16_Witness ==
    \E h \in HandlerIds :
        /\ handlers[h].pc = "done"
        /\ handlers[h].branch = "transient"
        /\ handlers[h].error = ConnectionClosed
        /\ SentOfType(ChatOfHandler(h), "transient") = 1
        /\ activePairings[ChatOfHandler(h)] = handlers[h].currentPairing
        /\ files[PathOfHandler(h)] # "absent"
        /\ ~pairing[handlers[h].currentPairing].isCancelling

\* C17: for every pairing object, across every step (handlers, /cancel,
\* startPairing), isCancelling never changes from true to false.
C17_CancellingNeverReverts ==
    [][\A o \in StartIds : pairing[o].isCancelling => pairing'[o].isCancelling]_vars

C17_Witness ==
    \E k \in CancelIds, h \in HandlerIds :
        /\ cancels[k].pc = "done"
        /\ pairing[cancels[k].activePairing].isCancelling
        /\ handlers[h].pc = "ignored"
        /\ handlers[h].sock = pairing[cancels[k].activePairing].sock
        /\ starts[cancels[k].activePairing].pc = "done"

\* The messages that tell the chat how a session ended.
TerminalMessages ==
    {"session_id", "uploadFailed", "cancelSuccess", "cancelled", "permanent",
     "setupError"}

\* How many such messages a chat has been sent.
TerminalSent(c) ==
    LET RECURSIVE Sum(_)
        Sum(T) == IF T = {} THEN 0
                  ELSE LET t == CHOOSE x \in T : TRUE
                       IN SentOfType(c, t) + Sum(T \ {t})
    IN Sum(TerminalMessages)

\* The startPairing invocations of a chat that took a session path.
SessionsOf(c) ==
    { i \in StartIds : starts[i].chat = c /\ starts[i].sessionPath # None }

\* C18: every session ends once: logout is called on its socket at most
\* once, the chat is sent at most one terminal message (session id or
\* upload failure, cancelled, permanent failure, setup error) for each of
\* its sessions, and an entry is put in the store only by the startPairing
\* invocation that made the session.
C18_TerminalTransitionOnce ==
    /\ [](\A s \in StartIds : CallsOf(s, "logout") <= 1)
    /\ [](\A c \in Chats : TerminalSent(c) <= Cardinality(SessionsOf(c)))
    /\ [][\A c \in Chats, i \in StartIds :
            (activePairings[c] # i /\ activePairings'[c] = i)
                => starts[i].pc = "fetchLatestBaileysVersion" /\ starts[i].chat = c
         ]_vars

\* A session whose only handler delivered the session id and called logout
\* twice: in the finally block and in the check that ends the open branch.
C18_LogoutTwice ==
    \E h \in HandlerIds :
        /\ handlers[h].branch = "upload"
        /\ handlers[h].megaUrl # NoText
        /\ handlers[h].pc = "done"
        /\ CallsOf(handlers[h].sock, "logout") = 2
        /\ \A g \in HandlerIds \ {h} : handlers[g].pc = "idle"
        /\ \A k \in CancelIds : cancels[k].pc = "idle"

\* The open handler h is at the checks that follow its "Connected" message,
\* the socket is not registered and a pairing artifact is recorded.
ReconnectWithArtifact(h) ==
    /\ handlers[h].pc = "connected"
    /\ handlers'[h] # handlers[h]
    /\ ~socks[handlers[h].sock].registered
    /\ pairing[handlers[h].currentPairing].lastPairingInfoSent.type \in {"qr", "code"}

\* The age of the record of the object of handler h.
RecordAge(h) ==
    SecondsSince(pairing[handlers[h].currentPairing].lastPairingInfoSent.timestamp)

\* No artifact is requested or sent and the store is left alone.
NoNewArtifact ==
    /\ UNCHANGED <<activePairings, calls, files, socks>>
    /\ \A c \in Chats : /\ SentOfType(c, "qr")' = SentOfType(c, "qr")
                        /\ SentOfType(c, "code")' = SentOfType(c, "code")

\* C19: an open update on a session that is not registered and has a
\* pairing artifact recorded: when more than 30 seconds have passed since
\* the record, the chat is told that the artifact has expired and the
\* record is cleared; otherwise the chat is told to continue and the record
\* is unchanged; in both cases nothing is requested from the socket, no
\* artifact is sent and the store is unchanged.
C19_ReconnectWithArtifact ==
    [][\A h \in HandlerIds :
        /\ ReconnectWithArtifact(h)
            => /\ NoNewArtifact
               /\ pairing' = pairing
               /\ IF RecordAge(h) > DebounceSeconds
                  THEN /\ handlers'[h].pc = "expiredSent"
                       /\ sent' = Put(sent, Msg(ChatOfHandler(h), "expired", NoText))
                  ELSE /\ handlers'[h].pc = "continueSent"
                       /\ sent' = Put(sent, Msg(ChatOfHandler(h), "continue", NoText))
        /\ (handlers[h].pc = "expiredSent" /\ handlers'[h] # handlers[h])
            => /\ NoNewArtifact
               /\ sent' = sent
               /\ handlers'[h].pc = "done"
               /\ pairing'[handlers[h].currentPairing].lastPairingInfoSent = NoInfo
        /\ (handlers[h].pc = "continueSent" /\ handlers'[h] # handlers[h])
            => /\ NoNewArtifact
               /\ sent' = sent
               /\ handlers'[h].pc = "done"
               /\ pairing' = pairing
      ]_vars

C19_Witness ==
    \E h \in HandlerIds :
        /\ handlers[h].pc = "done"
        /\ handlers[h].update = "open"
        /\ SentOfType(ChatOfHandler(h), "expired") = 1
        /\ pairing[handlers[h].currentPairing].lastPairingInfoSent = NoInfo
        /\ activePairings[ChatOfHandler(h)] = handlers[h].currentPairing
        /\ files[PathOfHandler(h)] # "absent"

\* The settle delay of handler h ends in this step and creds.json is not in
\* the folder of its socket.
CredsFoundMissing(h) ==
    /\ handlers[h].pc = "settle"
    /\ handlers'[h] # handlers[h]
    /\ files[PathOfHandler(h)] # "creds"

\* C20: when creds.json is missing after the settle delay, the handler
\* sends the creds-missing error and never calls uploadCredsToMega, and
\* once the handler has ended the folder of the session is removed and the
\* store does not hold the session.
C20_CredsMissingEndsSession ==
    /\ [][\A h \in HandlerIds :
            /\ CredsFoundMissing(h)
                => /\ handlers'[h].branch = "credsMissing"
                   /\ sent' = Put(sent, Msg(ChatOfHandler(h), "credsMissing", NoText))
                   /\ calls' = calls
            /\ (handlers[h].branch = "credsMissing" /\ handlers'[h] # handlers[h])
                => CallsOf(handlers[h].sock, "uploadCredsToMega")'
                        = CallsOf(handlers[h].sock, "uploadCredsToMega")
         ]_vars
    /\ [](\A h \in HandlerIds :
            (handlers[h].branch = "credsMissing" /\ HandlerEnded(h))
                => /\ files[PathOfHandler(h)] = "absent"
                   /\ activePairings[ChatOfHandler(h)] # handlers[h].currentPairing)

\* The creds-missing exit ended with an uncaught rejection of logout and
\* left the folder and the entry behind.
C20_LeftBehind ==
    \E h \in HandlerIds :
        /\ handlers[h].branch = "credsMissing"
        /\ handlers[h].pc = "threw"
        /\ files[PathOfHandler(h)] # "absent"
        /\ activePairings[ChatOfHandler(h)] = handlers[h].currentPairing
        /\ SentOfType(ChatOfHandler(h), "credsMissing") = 1
        /\ CallsOf(handlers[h].sock, "uploadCredsToMega") = 0

\* The upload of handler h has failed: the handler is past the catch block
\* of the upload sub-flow and no url was returned to it.
PublishFailed(h) ==
    /\ handlers[h].branch = "upload"
    /\ handlers[h].megaUrl = NoText
    /\ handlers[h].pc \in {"finallyDelay", "finallyLogout", "deliveredLogout",
                           "done", "threw"}

\* C21: when uploadCredsToMega fails in the upload sub-flow, the chat is
\* sent the upload-failure message; the handler then sends no session id,
\* records no session id and does not call uploadCredsToMega again; and the
\* session still ends: once the handler is over, logout has been called on
\* the socket, the folder is removed and the store does not hold the session.
C21_PublishFailureEndsSession ==
    /\ [][\A h \in HandlerIds :
            /\ (~PublishFailed(h) /\ PublishFailed(h)')
                => /\ sent' = Put(sent, Msg(ChatOfHandler(h), "uploadFailed", NoText))
                   /\ UNCHANGED <<calls, pairing, activePairings, files>>
            /\ (PublishFailed(h) /\ handlers'[h] # handlers[h])
                => /\ sent' = sent
                   /\ pairing' = pairing
                   /\ CallsOf(handlers[h].sock, "uploadCredsToMega")'
                        = CallsOf(handlers[h].sock, "uploadCredsToMega")
         ]_vars
    /\ [](\A h \in HandlerIds :
            (PublishFailed(h) /\ HandlerEnded(h))
                => /\ CallsOf(handlers[h].sock, "logout") >= 1
                   /\ files[PathOfHandler(h)] = "absent"
                   /\ activePairings[ChatOfHandler(h)] # handlers[h].currentPairing)

\* The upload failed, the chat was told, and the logout of the finally block
\* rejected: the folder and the entry of the session are still there.
C21_FailedUploadLeftBehind ==
    \E h \in HandlerIds :
        /\ PublishFailed(h)
        /\ handlers[h].pc = "threw"
        /\ SentOfType(ChatOfHandler(h), "uploadFailed") = 1
        /\ SentOfType(ChatOfHandler(h), "session_id") = 0
        /\ CallsOf(handlers[h].sock, "logout") = 1
        /\ files[PathOfHandler(h)] = "creds"
        /\ activePairings[ChatOfHandler(h)] = handlers[h].currentPairing
        /\ \A g \in HandlerIds \ {h} : handlers[g].pc = "idle"
        /\ \A k \in CancelIds : cancels[k].pc = "idle"

\* C22: when a logout or close that ends a session fails (in the finally
\* block of the upload, in the creds-missing exit, in the exit taken when
\* the session id was already delivered, after a failed pairing code
\* request, in /cancel), the cleanup still completes: once the invocation
\* is over the folder of the session is removed and the store does not hold
\* the session.
C22_LogoutFailureSwallowed ==
    /\ \A h \in HandlerIds :
        handlers[h].pc = "threw"
            => /\ files[PathOfHandler(h)] = "absent"
               /\ activePairings[ChatOfHandler(h)] # handlers[h].currentPairing
    /\ \A i \in StartIds :
        starts[i].pc = "failed"
            => files[i] = "absent" /\ activePairings[starts[i].chat] # i
    /\ \A k \in CancelIds :
        (cancels[k].pc = "done" /\ cancels[k].failed)
            => /\ files[pairing[cancels[k].activePairing].sessionPath] = "absent"
               /\ activePairings[cancels[k].chat] # cancels[k].activePairing

\* The session id was delivered, an open update took the exit of lines
\* 309-314 and its logout rejected: the handler is over and the folder and
\* the entry of the session are still there.
C22_DeliveredLogoutThrew ==
    \E h \in HandlerIds :
        /\ handlers[h].branch = "delivered"
        /\ handlers[h].pc = "threw"
        /\ pairing[handlers[h].currentPairing].lastPairingInfoSent.type = "session_id"
        /\ files[PathOfHandler(h)] = "creds"
        /\ activePairings[ChatOfHandler(h)] = handlers[h].currentPairing
        /\ \A g \in HandlerIds : HandlerEnded(g)
        /\ \A i \in StartIds : starts[i].pc \in {"idle", "done"}

\* The startPairing invocations that ended after a failure: the adapter
\* returned no pairing code, or makeWASocket, requestPairingCode or the
\* logout after a failed request threw.
StartFailed(i) == starts[i].pc \in {"codeFailed", "failed"}

\* The error messages of startPairing.
StartErrorsSent(c) == SentOfType(c, "codeFailed") + SentOfType(c, "setupError")

\* C23: when the pairing code request fails (no code is returned, or
\* opening the socket or requesting the code throws), the chat is sent an
\* error message, requestPairingCode is not called again, and the session
\* ends: when the invocation is over the folder is removed and the chat has
\* no store entry, the invocation does nothing later, and a startPairing
\* made for the chat while it has no entry is accepted.
C23_FailedCodeRequestEndsSession ==
    /\ [][\A i \in StartIds :
            /\ (starts[i].pc = "requestPairingCode" /\ starts'[i].pc = "codeFailedSent")
                => sent' = Put(sent, Msg(starts[i].chat, "codeFailed", NoText))
            /\ (starts[i].pc # "catchSent" /\ starts'[i].pc = "catchSent")
                => sent' = Put(sent, Msg(starts[i].chat, "setupError", NoText))
            /\ (~StartFailed(i) /\ StartFailed(i)')
                => /\ starts[i].pc \in {"codeFailedLogout", "catchSent"}
                   /\ files'[i] = "absent"
                   /\ activePairings'[starts[i].chat] = None
                   /\ UNCHANGED <<sent, calls>>
            /\ StartFailed(i) => starts'[i] = starts[i]
            /\ (StartPairingCalled(i) /\ activePairings[starts'[i].chat] = None
                /\ \E j \in StartIds : StartFailed(j) /\ starts[j].chat = starts'[i].chat)
                => starts'[i].pc = "useMultiFileAuthState"
         ]_vars
    /\ [](\A i \in StartIds :
            /\ CallsOf(i, "requestPairingCode") <= 1
            /\ StartFailed(i)
                => /\ StartErrorsSent(starts[i].chat) >= 1
                   /\ files[i] = "absent"
                   /\ activePairings[starts[i].chat] # i)

C23_Witness ==
    \E i, j \in StartIds :
        /\ starts[i].pc = "codeFailed"
        /\ CallsOf(i, "requestPairingCode") = 1
        /\ CallsOf(i, "logout") = 1
        /\ SentOfType(starts[i].chat, "codeFailed") = 1
        /\ files[i] = "absent"
        /\ j # i
        /\ starts[j].chat = starts[i].chat
        /\ starts[j].pc = "done"
        /\ activePairings[starts[j].chat] = j

\* Session s has ended: its startPairing failed, a /cancel of it is over, or
\* a handler of its socket ran a terminal branch on it to the end.
SessionEnded(s) ==
    \/ StartFailed(s)
    \/ \E k \in CancelIds : cancels[k].pc = "done" /\ cancels[k].activePairing = s
    \/ \E g \in HandlerIds : /\ HandlerTerminal(g)
                             /\ handlers[g].sock = s
                             /\ handlers[g].currentPairing = s

\* Handler invocation h, of an update of socket s, takes a step.
HandlerActs(h, s) == handlers'[h] # handlers[h] /\ handlers'[h].sock = s

\* C24: an update emitted by the socket of a session that has ended never
\* changes a newer session that a later startPairing stored for the same
\* chat: every step of the handler of such an update leaves the store entry,
\* the folder and lastPairingInfoSent of the newer session as they are.
C24_StaleEventsLeaveNewerSession ==
    [][\A h \in HandlerIds, s \in StartIds :
        LET o == activePairings[ChatOf(s)] IN
        (/\ HandlerActs(h, s)
         /\ SessionEnded(s)
         /\ o # None
         /\ o > s)
            => /\ activePairings'[ChatOf(s)] = o
               /\ files'[o] = files[o]
               /\ pairing'[o].lastPairingInfoSent = pairing[o].lastPairingInfoSent
      ]_vars

\* The pairing code request of the first session failed and the session
\* ended; the chat started a second session; the socket of the first one
\* emitted a close with a permanent reason, and its handler removed the
\* entry of the second session, whose folder is still there.
C24_NewerSessionRemoved ==
    \E h \in HandlerIds, s, o \in StartIds :
        /\ o > s
        /\ starts[s].pc = "codeFailed"
        /\ starts[o].pc = "done"
        /\ starts[o].chat = starts[s].chat
        /\ handlers[h].sock = s
        /\ handlers[h].currentPairing = o
        /\ handlers[h].branch = "permanent"
        /\ handlers[h].pc = "done"
        /\ activePairings[starts[o].chat] = None
        /\ files[o] # "absent"
        /\ \A k \in CancelIds : cancels[k].pc = "idle"

\* startPairing invocation i opens its socket and stores its session in
\* this step.
Opens(i) == ~socks[i].created /\ socks'[i].created

\* C25: of two startPairing calls of a chat that overlap (one passes the
\* already-active check while the other is suspended between its check and
\* its activePairings.set), at most one opens a socket and stores a session:
\* whenever a startPairing opens its socket and stores its session, the
\* store holds no other session of the chat, so that two sockets or folders
\* of the chat never exist together and no folder is left without an entry.
C25_OverlappingStartsOpenOnce ==
    [][\A i \in StartIds :
        Opens(i) => /\ activePairings[starts[i].chat] = None
                    /\ activePairings'[starts[i].chat] = i
      ]_vars

\* Two commands of one chat both passed the check; both opened a socket and
\* made a folder; the store holds the second session only, and the socket
\* and the folder of the first belong to no entry.
C25_TwoSessionsOneEntry ==
    \E i, j \in StartIds :
        /\ i # j
        /\ starts[i].chat = starts[j].chat
        /\ starts[i].pc = "done" /\ starts[j].pc = "done"
        /\ socks[i].created /\ socks[j].created
        /\ files[i] # "absent" /\ files[j] # "absent"
        /\ activePairings[starts[i].chat] = j
        /\ \A h \in HandlerIds : handlers[h].pc = "idle"
        /\ \A k \in CancelIds : cancels[k].pc = "idle"

\* Session o takes a step: its startPairing resumes, or the handler of an
\* update of its socket starts or resumes.
SessionActs(o) ==
    \/ starts'[o] # starts[o]
    \/ \E h \in HandlerIds : HandlerActs(h, pairing[o].sock)

\* C26: once /cancel has sent its success message for a session, nothing
\* more is sent to the chat by that session: not by its startPairing, not by
\* a handler of its socket, also when these were suspended at a delay, at
\* the pairing code request, at the upload or at a send while /cancel ran.
C26_SilentAfterCancel ==
    [][\A k \in CancelIds :
        IF cancels[k].pc = "done" /\ cancels[k].activePairing # None
        THEN SessionActs(cancels[k].activePairing) => sent' = sent
        ELSE TRUE
      ]_vars

\* /cancel is over and has reported success while the startPairing of the
\* session it cancelled is still suspended at delay(1500), before its
\* pairing code request.
C26_StartStillPending ==
    \E k \in CancelIds :
        /\ cancels[k].pc = "done"
        /\ cancels[k].activePairing # None
        /\ starts[cancels[k].activePairing].pc = "requesting"
        /\ SentOfType(cancels[k].chat, "cancelSuccess") = 1
        /\ SentOfType(cancels[k].chat, "code") = 0
        /\ activePairings[cancels[k].chat] = None
        /\ files[cancels[k].activePairing] = "absent"

====
